---- MODULE Spec2Model ----
(***************************************************************************)
(* Model of core/rawdb/freezer_remote_s3.go: the S3-backed freezer.        *)
(*                                                                         *)
(* The freezer keeps a frozen count, a backlog of records not yet         *)
(* grouped remotely (f.cache), a one-group read memo (f.retrieved), and   *)
(* talks to a bucket that holds group blobs "blocks/%09d.json" and the    *)
(* object "index-marker".                                                  *)
(*                                                                         *)
(* Modelling conventions:                                                  *)
(*  - uint64 arithmetic is kept modular; the modulus is 2^30 instead of    *)
(*    2^64 because TLC integers are 32 bit.  Only wrap-around itself       *)
(*    (0 - 1 is a huge number) matters to the code paths below.            *)
(*  - a bucket key "blocks/%09d.json" is modelled by its group index; the  *)
(*    zero padding makes the lexical order of keys the numeric order of    *)
(*    indices, and every such key sorts before "index-marker".             *)
(*  - the RLP field codec and the JSON blob codec belong to other          *)
(*    packages; a field's bytes are modelled as <<kind, payload>> and a    *)
(*    blob as the sequence of records it encodes.                          *)
(*                                                                         *)
(* Seven specifications share the definitions:                             *)
(*    Spec           sequential calls, no failure                          *)
(*    SpecAnyTarget  sequential writes, any truncation target              *)
(*    SpecAppend     sequential calls without truncation, failing requests *)
(*    SpecRestart    sequential appends, flushes and reads, with restarts  *)
(*    SpecFail       sequential calls, failing requests, any append number *)
(*    SpecCrash      sequential calls in a process that stops and restarts *)
(*    SpecConc       the methods called from goroutines, step by step      *)
(***************************************************************************)
EXTENDS Integers, Sequences, FiniteSets, TLC

\* Records per remote object used by the model (GETH_FREEZER_S3_GROUP_OBJECTS).
GroupSize == 2
\* The callers stop appending once the frozen count reaches this.
MaxFrozen == 4
\* How many requests to the bucket, or decodings, fail in one run.
MaxFaults == 1
\* How many calls the goroutines of the concurrent specification start in one run.
MaxCalls == 4

VARIABLES
    frozen,     \* *f.frozen
    cache,      \* f.cache: the backlog, a sequence of AncientObjectS3
    retrieved,  \* f.retrieved: number -> AncientObjectS3
    remote,     \* the bucket's group objects: group index -> sequence of records
    marker,     \* the bucket's "index-marker" object: decimal digits, or NoSuchKey
    committed,  \* history: the payload appended at each sequence number still committed
    ret,        \* history: the last call, its arguments, its result and its remote writes
    faults,     \* history: the failures injected so far
    mu,         \* f.mu: the goroutine that holds it, or Free
    th,         \* per goroutine: the call it is in, its position and its locals
    calls,      \* history: the calls the goroutines have started
    seen        \* history: the payloads ever appended at each sequence number

\* The state of the goroutines; the sequential specifications leave it alone.
conc == <<mu, th, calls, seen>>

vars == <<frozen, cache, retrieved, remote, marker, committed, ret, faults, mu, th, calls, seen>>

----------------------------------------------------------------------------
\* Values

Uint64Mod == 2^30
Sub(a, b) == (a - b) % Uint64Mod
\* A bug: an addition that loses its increment.
AddNothing(a, b) == a
Add(a, b) == (a + b) % Uint64Mod

objectGroupSize == GroupSize

Kinds == {"hashes", "headers", "bodies", "receipts", "diffs"}
Blocks == {1, 2}

Nil == <<>>
NoSuchKey == <<-1>>
OK == "nil"
errOutOfBounds == "errOutOfBounds"
errIO == "io error"
errDecode == "decode error"
Panic == "panic"

\* The bytes a caller passes for field `kind` of the block with payload b.
FieldBytes(kind, b) == <<kind, b>>
\* The five blobs a caller passes to AppendAncient for payload b.
BlockInput(b) == [k \in Kinds |-> FieldBytes(k, b)]
\* An input whose header bytes do not decode as a header.
BadInput(b) == [k \in Kinds |-> IF k = "headers" THEN FieldBytes("bodies", b) ELSE FieldBytes(k, b)]

\* rlp.DecodeBytes into the type of `kind` (common.BytesToHash for the hash).
DecodeFailed == -1
DecodeBytes(bytes, kind) == IF bytes[1] = kind THEN bytes[2] ELSE DecodeFailed

NewAncientObjectS3(in) ==
    IF \E k \in Kinds \ {"hashes"} : DecodeBytes(in[k], k) = DecodeFailed
    THEN [err |-> errDecode, o |-> Nil]
    ELSE [err |-> OK,
          o |-> [Hash |-> in["hashes"][2],
                 Header |-> DecodeBytes(in["headers"], "headers"),
                 Body |-> DecodeBytes(in["bodies"], "bodies"),
                 Receipts |-> DecodeBytes(in["receipts"], "receipts"),
                 Difficulty |-> DecodeBytes(in["diffs"], "diffs")]]

RLPBytesForKind(o, kind) ==
    CASE kind = "hashes" -> <<"hashes", o.Hash>>
      [] kind = "headers" -> <<"headers", o.Header>>
      [] kind = "bodies" -> <<"bodies", o.Body>>
      [] kind = "receipts" -> <<"receipts", o.Receipts>>
      [] kind = "diffs" -> <<"diffs", o.Difficulty>>

\* Every record a slot of a slice's backing array can hold.
Objects == {NewAncientObjectS3(BlockInput(b)).o : b \in Blocks}

objectKeyForN(n) == n \div objectGroupSize

\* strconv.FormatUint(number, 10) and strconv.ParseUint(contents, 10, 64)
RECURSIVE FormatUint(_)
FormatUint(n) == IF n < 10 THEN <<n>> ELSE Append(FormatUint(n \div 10), n % 10)

RECURSIVE ParseUint(_)
ParseUint(s) ==
    IF Len(s) = 0 THEN 0
    ELSE ParseUint(SubSeq(s, 1, Len(s) - 1)) * 10 + s[Len(s)]

\* s[:k] of a Go slice: the first k elements while k <= len(s); beyond len(s) it
\* either panics (k > cap) or re-exposes whatever the backing array holds.
RECURSIVE Extensions(_)
Extensions(k) ==
    IF k = 0 THEN {<<>>}
    ELSE {Append(e, o) : e \in Extensions(k - 1), o \in Objects}

\* A bug that cuts one element late.
SliceToInclusive(s, k) ==
    {[panic |-> FALSE, s |-> SubSeq(s, 1, IF k < Len(s) THEN k + 1 ELSE Len(s))]}

SliceTo(s, k) ==
    IF k <= Len(s) THEN {[panic |-> FALSE, s |-> SubSeq(s, 1, k)]}
    ELSE IF k - Len(s) > MaxFrozen + 1 THEN {[panic |-> TRUE, s |-> s]}
    ELSE {[panic |-> TRUE, s |-> s]}
         \cup {[panic |-> FALSE, s |-> s \o e] : e \in Extensions(k - Len(s))}

\* s[k:]
SliceFrom(s, k) == SubSeq(s, k + 1, Len(s))

EmptyMap == [x \in {} |-> Nil]

Ret(op, arg, kind, val, err, puts, putMarker) ==
    [op |-> op, arg |-> arg, kind |-> kind, val |-> val, err |-> err,
     puts |-> puts, putMarker |-> putMarker,
     afterSync |-> (ret.op = "Sync" /\ ret.err = OK)]

\* The history of appended payloads once the frozen count is set to n: what was
\* appended below n stays committed.
StillCommitted(n) == SubSeq(committed, 1, IF n < Len(committed) THEN n ELSE Len(committed))

Free == "free"
Threads == {"g1", "g2"}
Idle == [pc |-> "idle", op |-> "", arg |-> 0, kind |-> "", blk |-> 0,
         n |-> 0, len |-> 0, uploads |-> <<>>]

\* An injected failure is counted; a call that is not made to fail needs no budget.
Inject(failing) ==
    IF failing THEN faults < MaxFaults /\ faults' = faults + 1 ELSE UNCHANGED faults

\* The process is running and holds a constructed freezer.
Alive == ret.err # Panic /\ ~(ret.op = "New" /\ ret.err # OK)

----------------------------------------------------------------------------
\* Ancients: the frozen count; at construction, read from the index marker.

AncientsFromMarker == IF marker = NoSuchKey THEN 0 ELSE ParseUint(marker)

Ancients == frozen

----------------------------------------------------------------------------
\* Ancient(kind, number): result and the new f.retrieved.  dl = FALSE makes the
\* download fail with an error other than NoSuchKey.

\* A bug that lets the read at the frozen count itself through.
NotFrozenOffByOne(number) == frozen < number

\* The first test of Ancient: the number is not frozen yet.
NotFrozen(number) == frozen <= number

\* Ancient from line 306 on: the read memo, then the group's object.
AncientRemote(kind, number, dl) ==
    LET key == objectKeyForN(number)
        start == number - (number % objectGroupSize)
        i == number % objectGroupSize
    IN  IF number \in DOMAIN retrieved
        THEN [val |-> RLPBytesForKind(retrieved[number], kind), err |-> OK,
              retrieved |-> retrieved]
        ELSE IF ~dl
        THEN [val |-> Nil, err |-> errIO, retrieved |-> retrieved]
        ELSE IF key \notin DOMAIN remote
        THEN [val |-> Nil, err |-> errOutOfBounds, retrieved |-> retrieved]
        ELSE LET target == remote[key]
                 got == [x \in {start + j - 1 : j \in 1..Len(target)} |-> target[x - start + 1]]
             IN  IF i > Sub(Len(target), 1)
                 THEN [val |-> Nil, err |-> errOutOfBounds, retrieved |-> got]
                 ELSE IF i >= Len(target)
                 THEN [val |-> Nil, err |-> Panic, retrieved |-> got]
                 ELSE [val |-> RLPBytesForKind(target[i + 1], kind), err |-> OK,
                       retrieved |-> got]

\* Ancient at line 303: &f.cache[backlogIndex] of the backlog as it is now.
AncientBacklog(kind, backlogIndex) ==
    IF backlogIndex < Len(cache)
    THEN [val |-> RLPBytesForKind(cache[backlogIndex + 1], kind), err |-> OK,
          retrieved |-> retrieved]
    ELSE [val |-> Nil, err |-> Panic, retrieved |-> retrieved]

AncientCall(kind, number, dl) ==
    LET backlogLen == Len(cache)
        remoteHeight == Sub(frozen, backlogLen)
    IN  IF NotFrozen(number)
        THEN [val |-> Nil, err |-> OK, retrieved |-> retrieved]
        ELSE IF remoteHeight <= number
        THEN AncientBacklog(kind, Sub(number, remoteHeight))
        ELSE AncientRemote(kind, number, dl)

\* What Ancient(kind, number) returns in the current state.
AncientResult(kind, number) ==
    LET r == AncientCall(kind, number, TRUE) IN [val |-> r.val, err |-> r.err]

Ancient(kind, number, dl) ==
    /\ Alive
    /\ Inject(~dl)
    /\ LET r == AncientCall(kind, number, dl)
       IN  /\ retrieved' = r.retrieved
           /\ ret' = Ret("Ancient", number, kind, r.val, r.err, {}, FALSE)
    /\ UNCHANGED <<frozen, cache, remote, marker, committed>>
    /\ UNCHANGED conc

----------------------------------------------------------------------------
\* AppendAncient(number, hash, header, body, receipts, td)

AppendAncient(number, in, b) ==
    /\ Alive
    /\ Inject(NewAncientObjectS3(in).err # OK)
    /\ frozen < MaxFrozen
    /\ LET r == NewAncientObjectS3(in)
       IN  IF r.err # OK
           THEN /\ ret' = Ret("AppendAncient", number, "", Nil, r.err, {}, FALSE)
                /\ UNCHANGED <<frozen, cache, committed>>
           ELSE /\ cache' = Append(cache, r.o)
                /\ frozen' = Add(frozen, 1)
                /\ committed' = Append(committed, b)
                /\ ret' = Ret("AppendAncient", number, "", Nil, OK, {}, FALSE)
    /\ UNCHANGED <<retrieved, remote, marker>>
    /\ UNCHANGED conc

----------------------------------------------------------------------------
\* The bucket

\* A bug: a write that adds to the object already under the key.
PutObjectAppending(r, key, body) ==
    [g \in DOMAIN r \cup {key} |->
        IF g # key THEN r[g] ELSE IF key \in DOMAIN r THEN r[key] \o body ELSE body]

PutObject(r, key, body) ==
    [g \in DOMAIN r \cup {key} |-> IF g = key THEN body ELSE r[g]]

\* UploadWithIterator: the uploads in order; those whose index is in `failed` fail
\* and the iterator goes on with the next one.
RECURSIVE UploadFrom(_, _, _, _)
UploadFrom(r, uploads, j, failed) ==
    IF j > Len(uploads) THEN r
    ELSE UploadFrom(IF j \in failed THEN r ELSE PutObject(r, uploads[j].key, uploads[j].body),
                    uploads, j + 1, failed)

\* The keys a listing with Marker = key(items) returns: those strictly after it.
ListedAfter(items) == {g \in DOMAIN remote : g > objectKeyForN(items)}

DeleteObjects(r, keys) == [g \in DOMAIN r \ keys |-> r[g]]

----------------------------------------------------------------------------
\* Sync().  fail: "none", "upload" (some upload fails) or "marker" (the PutObject
\* of the index marker fails).

\* A bug that keys an upload by the backlog index of the item that sealed it.
UploadKeyByLocalIndex(cacheStartN, i) == objectKeyForN(i)

\* The key of the upload sealed by the item at backlog index i.
UploadKey(cacheStartN, i) == objectKeyForN(Add(cacheStartN, i))

\* The loop of Sync over the items of `items` from index i on: `set` collects, and
\* is sealed into an upload when it holds objectGroupSize items or i is lenCache-1.
RECURSIVE BuildUploads(_, _, _, _, _, _)
BuildUploads(items, i, set, lenCache, cacheStartN, uploads) ==
    IF i >= Len(items) THEN uploads
    ELSE LET grown == Append(set, items[i + 1])
         IN  IF Len(grown) = objectGroupSize \/ i = lenCache - 1
             THEN BuildUploads(items, i + 1, <<>>, lenCache, cacheStartN,
                               Append(uploads, [key |-> UploadKey(cacheStartN, i),
                                                body |-> grown]))
             ELSE BuildUploads(items, i + 1, grown, lenCache, cacheStartN, uploads)

SyncUploads ==
    BuildUploads(cache, 0, <<>>, Len(cache), Sub(frozen, Len(cache)), <<>>)

\* The backlog Sync keeps: the last len % objectGroupSize items.
SyncRemainder ==
    LET rem == Len(cache) % objectGroupSize
    IN  SliceFrom(cache, Len(cache) - rem)

UploadKeys(uploads, failed) == {uploads[j].key : j \in DOMAIN uploads \ failed}

Sync(fail) ==
    /\ Alive
    /\ Inject(fail # "none")
    /\ IF Len(cache) = 0
       THEN /\ ret' = Ret("Sync", 0, "", Nil, OK, {}, FALSE)
            /\ UNCHANGED <<cache, remote, marker>>
       ELSE LET uploads == SyncUploads
            IN  IF fail = "upload"
                THEN \E failed \in SUBSET (DOMAIN uploads) \ {{}} :
                        /\ remote' = UploadFrom(remote, uploads, 1, failed)
                        /\ ret' = Ret("Sync", 0, "", Nil, errIO, UploadKeys(uploads, failed), FALSE)
                        /\ UNCHANGED <<cache, marker>>
                ELSE /\ remote' = UploadFrom(remote, uploads, 1, {})
                     /\ cache' = SyncRemainder
                     /\ IF fail = "marker"
                        THEN /\ ret' = Ret("Sync", 0, "", Nil, errIO, UploadKeys(uploads, {}), FALSE)
                             /\ UNCHANGED marker
                        ELSE /\ marker' = FormatUint(frozen)
                             /\ ret' = Ret("Sync", 0, "", Nil, OK, UploadKeys(uploads, {}), TRUE)
    /\ UNCHANGED <<frozen, retrieved, committed>>
    /\ UNCHANGED conc

----------------------------------------------------------------------------
\* TruncateAncients(items).  fail: "none", or the step that fails: "download",
\* "decode", "delete", "marker".

\* What json.Unmarshal can leave in f.cache when it returns an error: nothing
\* touched (a syntax error is found before anything is stored), or the array
\* decoded as well as it could be (a value of the wrong type).
DecodeLeftovers(blob) == {cache, blob}

TruncateBacklog(items, height) ==
    \E c \in SliceTo(cache, Sub(items, height)) :
        IF c.panic
        THEN /\ ret' = Ret("TruncateAncients", items, "", Nil, Panic, {}, FALSE)
             /\ UNCHANGED <<frozen, cache, remote, marker, committed>>
        ELSE /\ cache' = c.s
             /\ frozen' = items
             /\ committed' = StillCommitted(items)
             /\ ret' = Ret("TruncateAncients", items, "", Nil, OK, {}, FALSE)
             /\ UNCHANGED <<remote, marker>>

TruncateRemote(items, fail) ==
    LET key == objectKeyForN(Sub(items, 1))
    IN  IF fail = "download"
        THEN /\ ret' = Ret("TruncateAncients", items, "", Nil, errIO, {}, FALSE)
             /\ UNCHANGED <<frozen, cache, remote, marker, committed>>
        ELSE IF key \notin DOMAIN remote
        THEN /\ ret' = Ret("TruncateAncients", items, "", Nil, errOutOfBounds, {}, FALSE)
             /\ UNCHANGED <<frozen, cache, remote, marker, committed>>
        ELSE IF fail = "decode"
        THEN /\ cache' \in DecodeLeftovers(remote[key])
             /\ ret' = Ret("TruncateAncients", items, "", Nil, errDecode, {}, FALSE)
             /\ UNCHANGED <<frozen, remote, marker, committed>>
        ELSE \E c \in SliceTo(remote[key], items % objectGroupSize) :
                IF c.panic
                THEN /\ cache' = remote[key]
                     /\ ret' = Ret("TruncateAncients", items, "", Nil, Panic, {}, FALSE)
                     /\ UNCHANGED <<frozen, remote, marker, committed>>
                ELSE IF fail = "delete"
                THEN \E gone \in SUBSET ListedAfter(items), markerGone \in BOOLEAN :
                        /\ cache' = c.s
                        /\ remote' = DeleteObjects(remote, gone)
                        /\ marker' = IF markerGone THEN NoSuchKey ELSE marker
                        /\ ret' = Ret("TruncateAncients", items, "", Nil, errIO, {}, FALSE)
                        /\ UNCHANGED <<frozen, committed>>
                ELSE IF fail = "marker"
                THEN /\ cache' = c.s
                     /\ remote' = DeleteObjects(remote, ListedAfter(items))
                     /\ marker' = NoSuchKey
                     /\ ret' = Ret("TruncateAncients", items, "", Nil, errIO, {}, FALSE)
                     /\ UNCHANGED <<frozen, committed>>
                ELSE /\ cache' = c.s
                     /\ remote' = DeleteObjects(remote, ListedAfter(items))
                     /\ marker' = FormatUint(items)
                     /\ frozen' = items
                     /\ committed' = StillCommitted(items)
                     /\ ret' = Ret("TruncateAncients", items, "", Nil, OK, {}, TRUE)

TruncateAncients(items, fail) ==
    /\ Alive
    /\ Inject(fail # "none")
    /\ LET n == frozen
           backlogLen == Len(cache)
       IN  IF Sub(n, backlogLen) <= items
           THEN TruncateBacklog(items, Sub(n, backlogLen))
           ELSE TruncateRemote(items, fail)
    /\ UNCHANGED retrieved
    /\ UNCHANGED conc

----------------------------------------------------------------------------
\* newFreezerRemoteS3 in a fresh process: every field of the old object is gone,
\* the bucket is what it was.

initCache(n) ==
    LET key == objectKeyForN(n)
    IN  IF key \notin DOMAIN remote
        THEN [err |-> errOutOfBounds, cache |-> <<>>]
        ELSE [err |-> OK, cache |-> remote[key]]

newFreezerRemoteS3 ==
    LET n == AncientsFromMarker
        r == IF n > 0 THEN initCache(n) ELSE [err |-> OK, cache |-> <<>>]
    IN  /\ frozen' = n
        /\ cache' = r.cache
        /\ retrieved' = EmptyMap
        /\ committed' = StillCommitted(n)
        /\ ret' = Ret("New", n, "", Nil, r.err, {}, FALSE)
        /\ UNCHANGED <<remote, marker, faults>>
        /\ UNCHANGED conc

----------------------------------------------------------------------------
\* The process stops inside Sync or TruncateAncients.  What is in memory is lost;
\* the bucket keeps the requests that were served.  The only step after a stop
\* is newFreezerRemoteS3 in a fresh process.

Crashed == "crashed"
Running == Alive /\ ret.err # Crashed

\* Sync stops at lines 529-541: UploadWithIterator has sent the first j uploads
\* (all of them for j = len(uploads)); the index marker has not been written.
SyncCrash(j) ==
    /\ Running
    /\ Inject(TRUE)
    /\ Len(cache) > 0
    /\ j \in 0..Len(SyncUploads)
    /\ LET sent == SubSeq(SyncUploads, 1, j)
       IN  /\ remote' = UploadFrom(remote, sent, 1, {})
           /\ ret' = Ret("Sync", 0, "", Nil, Crashed, UploadKeys(sent, {}), FALSE)
    /\ UNCHANGED <<frozen, cache, retrieved, marker, committed>>
    /\ UNCHANGED conc

\* The j lowest keys of a set of group keys: a listing is in key order.
FirstListed(keys, j) == {g \in keys : Cardinality({h \in keys : h < g}) < j}

\* TruncateAncients stops in its remote case at lines 471-481: the batch delete
\* has removed the first j listed keys; "index-marker" is listed after every
\* "blocks/..." key, so it goes last (j = number of listed group keys + 1), and
\* it has not been written again.
TruncateCrash(items, j) ==
    /\ Running
    /\ Inject(TRUE)
    /\ Sub(frozen, Len(cache)) > items
    /\ objectKeyForN(Sub(items, 1)) \in DOMAIN remote
    /\ items % objectGroupSize <= Len(remote[objectKeyForN(Sub(items, 1))])
    /\ j \in 0..(Cardinality(ListedAfter(items)) + 1)
    /\ remote' = DeleteObjects(remote, FirstListed(ListedAfter(items), j))
    /\ marker' = IF j > Cardinality(ListedAfter(items)) THEN NoSuchKey ELSE marker
    /\ ret' = Ret("TruncateAncients", items, "", Nil, Crashed, {}, FALSE)
    /\ UNCHANGED <<frozen, cache, retrieved, committed>>
    /\ UNCHANGED conc

\* The process stops between two calls.
Stop ==
    /\ Running
    /\ Inject(TRUE)
    /\ ret' = Ret("", 0, "", Nil, Crashed, {}, FALSE)
    /\ UNCHANGED <<frozen, cache, retrieved, remote, marker, committed>>
    /\ UNCHANGED conc

----------------------------------------------------------------------------
\* The same methods called from several goroutines, one step per shared access.
\* A position is named after the source line the goroutine is about to execute.

EntryPc(op) ==
    CASE op = "Ancient" -> "L296"
      [] op = "AppendAncient" -> "L402"
      [] op = "TruncateAncients" -> "L423"
      [] op = "Sync" -> "L492"

Goto(t, pc) == th' = [th EXCEPT ![t].pc = pc]

Return(t, val, err, puts, putMarker) ==
    /\ th' = [th EXCEPT ![t] = Idle]
    /\ ret' = Ret(th[t].op, th[t].arg, th[t].kind, val, err, puts, putMarker)

\* A goroutine enters a method.
Call(t, op, arg, kind, blk) ==
    /\ Alive
    /\ th[t].pc = "idle"
    /\ calls < MaxCalls
    /\ op = "AppendAncient" => frozen < MaxFrozen
    /\ calls' = calls + 1
    /\ th' = [th EXCEPT ![t] = [Idle EXCEPT !.pc = EntryPc(op), !.op = op, !.arg = arg,
                                            !.kind = kind, !.blk = blk]]
    /\ UNCHANGED <<frozen, cache, retrieved, remote, marker, committed, ret, faults, mu, seen>>

\* Ancient, lines 296-298
AncientL296(t) ==
    /\ Alive
    /\ th[t].pc = "L296"
    /\ IF NotFrozen(th[t].arg)
       THEN Return(t, Nil, OK, {}, FALSE)
       ELSE Goto(t, "L299") /\ UNCHANGED ret
    /\ UNCHANGED <<frozen, cache, retrieved, remote, marker, committed, faults, mu, calls, seen>>

\* line 299: backlogLen := uint64(len(f.cache))
AncientL299(t) ==
    /\ Alive
    /\ th[t].pc = "L299"
    /\ th' = [th EXCEPT ![t].pc = "L300", ![t].len = Len(cache)]
    /\ UNCHANGED <<frozen, cache, retrieved, remote, marker, committed, ret, faults, mu, calls, seen>>

\* line 300: remoteHeight := atomic.LoadUint64(f.frozen) - backlogLen
AncientL300(t) ==
    /\ Alive
    /\ th[t].pc = "L300"
    /\ LET remoteHeight == Sub(frozen, th[t].len)
       IN  th' = [th EXCEPT ![t].pc = IF remoteHeight <= th[t].arg THEN "L303" ELSE "L306",
                            ![t].n = remoteHeight]
    /\ UNCHANGED <<frozen, cache, retrieved, remote, marker, committed, ret, faults, mu, calls, seen>>

\* lines 302-304: the backlog is indexed as it is now
AncientL303(t) ==
    /\ Alive
    /\ th[t].pc = "L303"
    /\ LET r == AncientBacklog(th[t].kind, Sub(th[t].arg, th[t].n))
       IN  Return(t, r.val, r.err, {}, FALSE)
    /\ UNCHANGED <<frozen, cache, retrieved, remote, marker, committed, faults, mu, calls, seen>>

\* lines 306-341
AncientL306(t) ==
    /\ Alive
    /\ th[t].pc = "L306"
    /\ LET r == AncientRemote(th[t].kind, th[t].arg, TRUE)
       IN  /\ retrieved' = r.retrieved
           /\ Return(t, r.val, r.err, {}, FALSE)
    /\ UNCHANGED <<frozen, cache, remote, marker, committed, faults, mu, calls, seen>>

\* AppendAncient, line 402: f.mu.Lock()
AppendL402(t) ==
    /\ Alive
    /\ th[t].pc = "L402"
    /\ mu = Free
    /\ mu' = t
    /\ Goto(t, "L410")
    /\ UNCHANGED <<frozen, cache, retrieved, remote, marker, committed, ret, faults, calls, seen>>

\* lines 405-410: f.cache = append(f.cache, *o)
AppendL410(t) ==
    /\ Alive
    /\ th[t].pc = "L410"
    /\ cache' = Append(cache, NewAncientObjectS3(BlockInput(th[t].blk)).o)
    /\ seen' = [seen EXCEPT ![frozen] = @ \cup {th[t].blk}]
    /\ Goto(t, "L412")
    /\ UNCHANGED <<frozen, retrieved, remote, marker, committed, ret, faults, mu, calls>>

\* lines 412-414: atomic.AddUint64(f.frozen, 1), return, the deferred Unlock
AppendL412(t) ==
    /\ Alive
    /\ th[t].pc = "L412"
    /\ frozen' = Add(frozen, 1)
    /\ mu' = Free
    /\ Return(t, Nil, OK, {}, FALSE)
    /\ UNCHANGED <<cache, retrieved, remote, marker, committed, faults, calls, seen>>

\* TruncateAncients, line 423: f.mu.Lock()
TruncateL423(t) ==
    /\ Alive
    /\ th[t].pc = "L423"
    /\ mu = Free
    /\ mu' = t
    /\ Goto(t, "L426")
    /\ UNCHANGED <<frozen, cache, retrieved, remote, marker, committed, ret, faults, calls, seen>>

\* line 426: n := atomic.LoadUint64(f.frozen)
TruncateL426(t) ==
    /\ Alive
    /\ th[t].pc = "L426"
    /\ th' = [th EXCEPT ![t].pc = "L429", ![t].n = frozen]
    /\ UNCHANGED <<frozen, cache, retrieved, remote, marker, committed, ret, faults, mu, calls, seen>>

\* lines 429-430: backlogLen := uint64(len(f.cache)) and the choice of the case
TruncateL429(t) ==
    /\ Alive
    /\ th[t].pc = "L429"
    /\ th' = [th EXCEPT ![t].pc = IF Sub(th[t].n, Len(cache)) <= th[t].arg THEN "L432" ELSE "L440",
                        ![t].len = Len(cache)]
    /\ UNCHANGED <<frozen, cache, retrieved, remote, marker, committed, ret, faults, mu, calls, seen>>

\* lines 431-432: f.cache = f.cache[:index]
TruncateL432(t) ==
    /\ Alive
    /\ th[t].pc = "L432"
    /\ \E c \in SliceTo(cache, Sub(th[t].arg, Sub(th[t].n, th[t].len))) :
          IF c.panic
          THEN Return(t, Nil, Panic, {}, FALSE) /\ UNCHANGED cache
          ELSE cache' = c.s /\ Goto(t, "L433") /\ UNCHANGED ret
    /\ UNCHANGED <<frozen, retrieved, remote, marker, committed, faults, mu, calls, seen>>

\* lines 433-434: atomic.StoreUint64(f.frozen, items), return, the deferred Unlock
TruncateL433(t) ==
    /\ Alive
    /\ th[t].pc = "L433"
    /\ frozen' = th[t].arg
    /\ mu' = Free
    /\ Return(t, Nil, OK, {}, FALSE)
    /\ UNCHANGED <<cache, retrieved, remote, marker, committed, faults, calls, seen>>

\* lines 440-459: the download of the group of items-1, decoded into f.cache
TruncateL440(t) ==
    /\ Alive
    /\ th[t].pc = "L440"
    /\ LET key == objectKeyForN(Sub(th[t].arg, 1))
       IN  IF key \notin DOMAIN remote
           THEN /\ mu' = Free
                /\ Return(t, Nil, errOutOfBounds, {}, FALSE)
                /\ UNCHANGED cache
           ELSE /\ cache' = remote[key]
                /\ Goto(t, "L461")
                /\ UNCHANGED <<mu, ret>>
    /\ UNCHANGED <<frozen, retrieved, remote, marker, committed, faults, calls, seen>>

\* line 461: f.cache = f.cache[:(items % f.objectGroupSize)]
TruncateL461(t) ==
    /\ Alive
    /\ th[t].pc = "L461"
    /\ \E c \in SliceTo(cache, th[t].arg % objectGroupSize) :
          IF c.panic
          THEN Return(t, Nil, Panic, {}, FALSE) /\ UNCHANGED cache
          ELSE cache' = c.s /\ Goto(t, "L471") /\ UNCHANGED ret
    /\ UNCHANGED <<frozen, retrieved, remote, marker, committed, faults, mu, calls, seen>>

\* lines 471-479: everything listed after the key of items is deleted
TruncateL471(t) ==
    /\ Alive
    /\ th[t].pc = "L471"
    /\ remote' = DeleteObjects(remote, ListedAfter(th[t].arg))
    /\ marker' = NoSuchKey
    /\ Goto(t, "L481")
    /\ UNCHANGED <<frozen, cache, retrieved, committed, ret, faults, mu, calls, seen>>

\* line 481: f.setIndexMarker(items)
TruncateL481(t) ==
    /\ Alive
    /\ th[t].pc = "L481"
    /\ marker' = FormatUint(th[t].arg)
    /\ Goto(t, "L485")
    /\ UNCHANGED <<frozen, cache, retrieved, remote, committed, ret, faults, mu, calls, seen>>

\* lines 485-487: atomic.StoreUint64(f.frozen, items), return, the deferred Unlock
TruncateL485(t) ==
    /\ Alive
    /\ th[t].pc = "L485"
    /\ frozen' = th[t].arg
    /\ mu' = Free
    /\ Return(t, Nil, OK, {}, TRUE)
    /\ UNCHANGED <<cache, retrieved, remote, marker, committed, faults, calls, seen>>

\* Sync, lines 492-495.  Sync never touches f.mu.
SyncL492(t) ==
    /\ Alive
    /\ th[t].pc = "L492"
    /\ IF Len(cache) = 0
       THEN Return(t, Nil, OK, {}, FALSE)
       ELSE Goto(t, "L502") /\ UNCHANGED ret
    /\ UNCHANGED <<frozen, cache, retrieved, remote, marker, committed, faults, mu, calls, seen>>

\* line 502: lenCache := len(f.cache)
SyncL502(t) ==
    /\ Alive
    /\ th[t].pc = "L502"
    /\ th' = [th EXCEPT ![t].pc = "L503", ![t].len = Len(cache)]
    /\ UNCHANGED <<frozen, cache, retrieved, remote, marker, committed, ret, faults, mu, calls, seen>>

\* line 503: cacheStartN := atomic.LoadUint64(f.frozen) - uint64(lenCache)
SyncL503(t) ==
    /\ Alive
    /\ th[t].pc = "L503"
    /\ th' = [th EXCEPT ![t].pc = "L507", ![t].n = Sub(frozen, th[t].len)]
    /\ UNCHANGED <<frozen, cache, retrieved, remote, marker, committed, ret, faults, mu, calls, seen>>

\* lines 505-527: the loop ranges over f.cache as it is when the loop starts
SyncL507(t) ==
    /\ Alive
    /\ th[t].pc = "L507"
    /\ th' = [th EXCEPT ![t].pc = "L530",
                        ![t].uploads = BuildUploads(cache, 0, <<>>, th[t].len, th[t].n, <<>>)]
    /\ UNCHANGED <<frozen, cache, retrieved, remote, marker, committed, ret, faults, mu, calls, seen>>

\* lines 529-533: f.uploader.UploadWithIterator
SyncL530(t) ==
    /\ Alive
    /\ th[t].pc = "L530"
    /\ remote' = UploadFrom(remote, th[t].uploads, 1, {})
    /\ Goto(t, "L534")
    /\ UNCHANGED <<frozen, cache, retrieved, marker, committed, ret, faults, mu, calls, seen>>

\* lines 534-536: f.cache = f.cache[len(f.cache)-rem:]
SyncL534(t) ==
    /\ Alive
    /\ th[t].pc = "L534"
    /\ cache' = SyncRemainder
    /\ Goto(t, "L541")
    /\ UNCHANGED <<frozen, retrieved, remote, marker, committed, ret, faults, mu, calls, seen>>

\* lines 541-547: f.setIndexMarker(atomic.LoadUint64(f.frozen))
SyncL541(t) ==
    /\ Alive
    /\ th[t].pc = "L541"
    /\ marker' = FormatUint(frozen)
    /\ Return(t, Nil, OK, UploadKeys(th[t].uploads, {}), TRUE)
    /\ UNCHANGED <<frozen, cache, retrieved, remote, committed, faults, mu, calls, seen>>

----------------------------------------------------------------------------
\* Specifications

Init ==
    /\ frozen = 0
    /\ cache = <<>>
    /\ retrieved = EmptyMap
    /\ remote = EmptyMap
    /\ marker = NoSuchKey
    /\ committed = <<>>
    /\ faults = 0
    /\ mu = Free
    /\ th = [t \in Threads |-> Idle]
    /\ calls = 0
    /\ seen = [n \in 0..(MaxFrozen + MaxCalls) |-> {}]
    /\ ret = [op |-> "New", arg |-> 0, kind |-> "", val |-> Nil, err |-> OK,
              puts |-> {}, putMarker |-> FALSE, afterSync |-> FALSE]

Numbers == 0..MaxFrozen
\* The kinds the readers of the model ask for.
ReadKinds == {"hashes", "diffs"}

\* Sequential callers that respect the interface, and a bucket that never fails.
Next ==
    \/ \E b \in Blocks : AppendAncient(frozen, BlockInput(b), b)
    \/ Sync("none")
    \/ \E items \in 0..frozen : TruncateAncients(items, "none")
    \/ \E kind \in ReadKinds, number \in Numbers : Ancient(kind, number, TRUE)

Spec == Init /\ [][Next]_vars

\* Appends, flushes and reads, with the process restarted at any point.
NextRestart ==
    \/ \E b \in Blocks : AppendAncient(frozen, BlockInput(b), b)
    \/ Sync("none")
    \/ \E kind \in ReadKinds, number \in Numbers : Ancient(kind, number, TRUE)
    \/ newFreezerRemoteS3

SpecRestart == Init /\ [][NextRestart]_vars

SyncFailures == {"none", "upload", "marker"}
TruncateFailures == {"none", "download", "decode", "delete", "marker"}

\* Sequential callers that may pass any number and undecodable bytes to
\* AppendAncient, and a bucket whose requests may fail.
NextFail ==
    \/ \E number \in Numbers, b \in Blocks : AppendAncient(number, BlockInput(b), b)
    \/ \E b \in Blocks : AppendAncient(frozen, BadInput(b), b)
    \/ \E fail \in SyncFailures : Sync(fail)
    \/ \E items \in 0..frozen, fail \in TruncateFailures : TruncateAncients(items, fail)
    \/ \E kind \in ReadKinds, number \in Numbers : Ancient(kind, number, FALSE)

SpecFail == Init /\ [][NextFail]_vars

\* Sequential writers that may pass any target to TruncateAncients, the targets
\* above the frozen count included; the bucket never fails.
Targets == 0..(MaxFrozen + 1)

NextAnyTarget ==
    \/ \E b \in Blocks : AppendAncient(frozen, BlockInput(b), b)
    \/ Sync("none")
    \/ \E items \in Targets : TruncateAncients(items, "none")

SpecAnyTarget == Init /\ [][NextAnyTarget]_vars

\* Callers that never truncate: appends (any number, undecodable bytes too),
\* flushes and reads, over a bucket whose requests may fail.
NextAppend ==
    \/ \E number \in Numbers, b \in Blocks : AppendAncient(number, BlockInput(b), b)
    \/ \E b \in Blocks : AppendAncient(frozen, BadInput(b), b)
    \/ \E fail \in SyncFailures : Sync(fail)
    \/ \E kind \in ReadKinds, number \in Numbers, dl \in BOOLEAN : Ancient(kind, number, dl)

SpecAppend == Init /\ [][NextAppend]_vars

\* Sequential callers that respect the interface over a bucket that never fails,
\* in a process that may stop between calls or inside Sync or TruncateAncients
\* and is then started again.  Reads are made on a freezer that has just
\* been constructed, before anything is written to it.
NextCrash ==
    \/ Running /\ \E b \in Blocks : AppendAncient(frozen, BlockInput(b), b)
    \/ Running /\ Sync("none")
    \/ Running /\ \E items \in 0..frozen : TruncateAncients(items, "none")
    \/ Running /\ ret.op \in {"New", "Ancient"}
               /\ \E kind \in ReadKinds, number \in Numbers : Ancient(kind, number, TRUE)
    \/ \E j \in 0..MaxFrozen : SyncCrash(j)
    \/ \E items \in 0..frozen, j \in 0..(MaxFrozen + 1) : TruncateCrash(items, j)
    \/ Stop
    \/ ret.err = Crashed /\ newFreezerRemoteS3

SpecCrash == Init /\ [][NextCrash]_vars

\* Goroutines that call the four methods at any time; the bucket never fails.
NextConc ==
    \/ \E t \in Threads, kind \in ReadKinds, number \in Numbers :
            Call(t, "Ancient", number, kind, 0)
    \/ \E t \in Threads, b \in Blocks : Call(t, "AppendAncient", frozen, "", b)
    \/ \E t \in Threads, items \in 0..frozen : Call(t, "TruncateAncients", items, "", 0)
    \/ \E t \in Threads : Call(t, "Sync", 0, "", 0)
    \/ \E t \in Threads :
            \/ AncientL296(t) \/ AncientL299(t) \/ AncientL300(t)
            \/ AncientL303(t) \/ AncientL306(t)
            \/ AppendL402(t) \/ AppendL410(t) \/ AppendL412(t)
            \/ TruncateL423(t) \/ TruncateL426(t) \/ TruncateL429(t)
            \/ TruncateL432(t) \/ TruncateL433(t) \/ TruncateL440(t)
            \/ TruncateL461(t) \/ TruncateL471(t) \/ TruncateL481(t)
            \/ TruncateL485(t)
            \/ SyncL492(t) \/ SyncL502(t) \/ SyncL503(t) \/ SyncL507(t)
            \/ SyncL530(t) \/ SyncL534(t) \/ SyncL541(t)

SpecConc == Init /\ [][NextConc]_vars

----------------------------------------------------------------------------
\* Properties

\* What a read of field `kind` of the record committed at `number` must return.
Committed(kind, number) == [val |-> FieldBytes(kind, committed[number + 1]), err |-> OK]
NotFound == [val |-> Nil, err |-> OK]

\* C1: in a sequential run from the empty store with no failures, Ancient(kind, n)
\* returns, for every n below the frozen count and every kind, the bytes of the
\* latest AppendAncient still committed at n.
C1_ReadsReturnCommitted ==
    Alive => \A n \in 0..(frozen - 1), kind \in Kinds :
                AncientResult(kind, n) = Committed(kind, n)

\* C5: after a successful TruncateAncients(t) with t at most the frozen count,
\* Ancients() is t and Ancient(kind, m) finds nothing for every m >= t.
C5_TruncatePostcondition ==
    (ret.op = "TruncateAncients" /\ ret.err = OK) =>
        /\ Ancients = ret.arg
        /\ \A m \in ret.arg..(MaxFrozen + 1), kind \in Kinds :
                AncientResult(kind, m) = NotFound

\* C5 witness: a truncate below the remote prefix succeeded while the read memo
\* and the bucket both still hold a record at or above the target.
C5_Witness ==
    /\ ret.op = "TruncateAncients" /\ ret.err = OK /\ ret.putMarker
    /\ \E m \in DOMAIN retrieved : m >= ret.arg
    /\ \E g \in DOMAIN remote : g * objectGroupSize + Len(remote[g]) > ret.arg

\* C8: after every successful Sync and every successful TruncateAncients the
\* persisted index marker is the frozen count.
C8_MarkerIsFrozenCount ==
    (ret.op \in {"Sync", "TruncateAncients"} /\ ret.err = OK) =>
        AncientsFromMarker = frozen

\* C10 as stated: a Sync right after a successful Sync writes nothing to the bucket.
C10_SecondSyncWritesNothing ==
    (ret.op = "Sync" /\ ret.err = OK /\ ret.afterSync) =>
        (ret.puts = {} /\ ~ret.putMarker)

\* C10 as amended: a successful Sync right after a successful Sync leaves the frozen
\* count, the backlog, the index marker and every group object as they were, and
\* writes nothing when the backlog is empty.
C10_SecondSyncChangesNothing ==
    [][(ret.op = "Sync" /\ ret.err = OK /\ ret'.op = "Sync" /\ ret'.err = OK) =>
          /\ frozen' = frozen /\ cache' = cache /\ marker' = marker
          /\ remote' = remote /\ retrieved' = retrieved
          /\ (cache = <<>> => (ret'.puts = {} /\ ~ret'.putMarker))]_vars

\* C10 witness: the second Sync found a partial group in the backlog, behind a
\* flushed prefix, and uploaded it again.
C10_Witness ==
    /\ ret.op = "Sync" /\ ret.err = OK /\ ret.afterSync
    /\ ret.puts # {} /\ ret.putMarker
    /\ Len(cache) > 0 /\ frozen > Len(cache)

\* C2: after appending n >= 1 records and a successful Sync, a freezer rebuilt from
\* the index marker and the bucket is constructed without error, reports
\* Ancients() = n, and reads every record below n as it was appended.
C2_RoundTripAcrossRestart ==
    [][(ret.op = "Sync" /\ ret.err = OK /\ frozen >= 1 /\ ret'.op = "New") =>
          /\ ret'.err = OK
          /\ frozen' = frozen
          /\ \A i \in 0..(frozen - 1), kind \in Kinds :
                AncientResult(kind, i)' = Committed(kind, i)]_vars

\* C6: whenever Sync returns an error, the write buffer and the index marker are
\* what they were before the call.
C6_SyncFailureIsAtomic ==
    [][(ret'.op = "Sync" /\ ret'.err \notin {OK, Panic}) =>
          (cache' = cache /\ marker' = marker)]_vars

\* C7: whenever TruncateAncients returns an error, the frozen count, the write
\* buffer and the index marker are what they were before the call.
C7_TruncateFailureIsAtomic ==
    [][(ret'.op = "TruncateAncients" /\ ret'.err \notin {OK, Panic}) =>
          (frozen' = frozen /\ cache' = cache /\ marker' = marker)]_vars

\* C9: AppendAncient(number, ...) with number other than the frozen count returns
\* an error and leaves the write buffer and the frozen count as they were.
C9_AppendRejectsOutOfSequence ==
    [][(ret'.op = "AppendAncient" /\ ret'.arg # frozen) =>
          (ret'.err # OK /\ cache' = cache /\ frozen' = frozen)]_vars

\* A goroutine is between the first and the last step of a call that writes: it
\* has left the call's entry position (for AppendAncient and TruncateAncients,
\* it has the lock) and has not returned.
Writing(t) ==
    /\ th[t].op \in {"AppendAncient", "Sync", "TruncateAncients"}
    /\ th[t].pc \notin {"idle", EntryPc(th[t].op)}

\* C3: AppendAncient, Sync and TruncateAncients exclude one another: no goroutine
\* takes a step of one of them while another goroutine is inside one of them.
C3_WritersExcludeOneAnother ==
    \A t1, t2 \in Threads : (Writing(t1) /\ Writing(t2)) => t1 = t2

\* C4: an Ancient(kind, number) that runs beside AppendAncient, Sync or
\* TruncateAncients never indexes the write buffer outside its bounds, and what it
\* returns is a record appended at `number` or nothing.
C4_ReadsSeeConsistentSnapshot ==
    ret.op = "Ancient" =>
        /\ ret.err # Panic
        /\ ret.val # Nil => \E b \in seen[ret.arg] : ret.val = FieldBytes(ret.kind, b)

\* The record AppendAncient builds from the payload committed at `number`.
CommittedObject(number) == NewAncientObjectS3(BlockInput(committed[number + 1])).o

\* C11: after every successful Sync the backlog holds frozen mod objectGroupSize
\* records, and they are the records last appended: those committed at the
\* highest sequence numbers below the frozen count.
C11_SyncLeavesRemainder ==
    (ret.op = "Sync" /\ ret.err = OK) =>
        /\ Len(cache) = frozen % objectGroupSize
        /\ Len(committed) = frozen
        /\ \A j \in 1..Len(cache) :
                cache[j] = CommittedObject(frozen - Len(cache) + j - 1)

\* C12: TruncateAncients(t) with t at most the frozen count, called twice in a
\* row: the second call succeeds and leaves the frozen count, the backlog, the
\* index marker and the group objects as the first call left them.
C12_TruncateIsIdempotent ==
    [][(/\ ret.op = "TruncateAncients" /\ ret.arg <= frozen
        /\ ret'.op = "TruncateAncients" /\ ret'.arg = ret.arg) =>
          /\ ret'.err = OK
          /\ frozen' = frozen /\ cache' = cache
          /\ marker' = marker /\ remote' = remote]_vars

\* C13: TruncateAncients(target) with frozen - len(f.cache) <= target <= frozen
\* succeeds, keeps exactly the buffered records below target, stores target as
\* the frozen count, and neither reads nor writes the bucket.
C13_TruncateInBuffer ==
    [][(/\ ret'.op = "TruncateAncients"
        /\ Len(cache) <= frozen
        /\ frozen - Len(cache) <= ret'.arg /\ ret'.arg <= frozen) =>
          /\ ret'.err = OK
          /\ cache' = SubSeq(cache, 1, ret'.arg - (frozen - Len(cache)))
          /\ frozen' = ret'.arg
          /\ remote' = remote /\ marker' = marker /\ retrieved' = retrieved
          /\ ret'.puts = {} /\ ~ret'.putMarker]_vars

\* C13 witness: an in-buffer truncate dropped a record that a Sync had already
\* counted in the index marker and uploaded; the marker and the group object
\* still show it.
C13_Witness ==
    /\ ret.op = "TruncateAncients" /\ ret.err = OK /\ ~ret.putMarker
    /\ frozen >= 1 /\ AncientsFromMarker > frozen
    /\ \E g \in DOMAIN remote : g * objectGroupSize + Len(remote[g]) > frozen

\* C14: from the empty store, after k successful AppendAncient calls and no
\* TruncateAncients, with Sync and Ancient calls in between, Ancients() is k.
\* Without truncation `committed` grows by one per successful append.
C14_AncientsCountsAppends == Ancients = Len(committed)

\* C14 witness: MaxFrozen appends succeeded, with a flush and a remote read
\* among them.
C14_Witness ==
    /\ Len(committed) = MaxFrozen /\ Ancients = MaxFrozen
    /\ DOMAIN remote # {} /\ DOMAIN retrieved # {}
    /\ 0 < Len(cache) /\ Len(cache) < MaxFrozen

\* The record the bucket holds for sequence number s is the one committed at s:
\* it sits in the object of group s div objectGroupSize at s mod objectGroupSize.
StoredRemotely(s) ==
    LET key == objectKeyForN(s)
    IN  /\ key \in DOMAIN remote
        /\ s % objectGroupSize < Len(remote[key])
        /\ remote[key][(s % objectGroupSize) + 1] = CommittedObject(s)

\* C15: between calls the backlog is no longer than the frozen count, and every
\* sequence number below frozen - len(f.cache) is stored in the bucket, in its
\* group's object at its position, as the record committed at it.
C15_DurablePrefix ==
    Alive =>
        /\ Len(cache) <= frozen
        /\ \A s \in 0..(frozen - Len(cache) - 1) : StoredRemotely(s)

\* C16: whenever Sync can run, the backlog starts at a multiple of
\* objectGroupSize, and every object Sync uploads under the key of group g holds,
\* from position 0 on, the records committed at g * objectGroupSize,
\* g * objectGroupSize + 1, ...
C16_UploadsAlignedToSequence ==
    (Running /\ Len(cache) > 0) =>
        /\ Sub(frozen, Len(cache)) % objectGroupSize = 0
        /\ \A j \in DOMAIN SyncUploads :
              \A p \in 1..Len(SyncUploads[j].body) :
                 LET s == SyncUploads[j].key * objectGroupSize + p - 1
                 IN  /\ s < Len(committed)
                     /\ SyncUploads[j].body[p] = CommittedObject(s)

\* C17: after a successful TruncateAncients(target) in the remote case the bucket
\* holds no group object of index target div objectGroupSize or higher.
C17_TruncateDeletesTargetGroup ==
    (ret.op = "TruncateAncients" /\ ret.err = OK /\ ret.putMarker) =>
        \A g \in DOMAIN remote : g < objectKeyForN(ret.arg)

\* C18: when the process stops at any step inside Sync or TruncateAncients and a
\* freezer is constructed again from the index marker and the bucket, then for
\* every i below its Ancients(), Ancient(kind, i) returns the record that was
\* committed at i: no other record and no error.
C18_CrashConsistency ==
    [][(/\ ret.err = Crashed /\ ret.op \in {"Sync", "TruncateAncients"}
        /\ ret'.op = "New" /\ ret'.err = OK) =>
          \A i \in 0..(frozen' - 1), kind \in Kinds :
              /\ i < Len(committed')
              /\ AncientResult(kind, i)' = Committed(kind, i)']_vars

\* C19: after any sequence of successful AppendAncient, Sync and
\* TruncateAncients calls every group object holds at most objectGroupSize
\* records, and every one but that of the highest group index holds exactly
\* objectGroupSize.
C19_GroupShape ==
    \A g \in DOMAIN remote :
        /\ Len(remote[g]) <= objectGroupSize
        /\ (\E h \in DOMAIN remote : h > g) => Len(remote[g]) = objectGroupSize

\* C19 witness: a Sync has just uploaded a partial last group above a full one,
\* and left the partial group in the backlog.
C19_Witness ==
    /\ ret.op = "Sync" /\ ret.err = OK /\ ret.puts # {}
    /\ \E g, h \in DOMAIN remote :
          /\ g < h /\ h \in ret.puts
          /\ Len(remote[g]) = objectGroupSize
          /\ 0 < Len(remote[h]) /\ Len(remote[h]) < objectGroupSize
          /\ cache = remote[h]

\* C20: TruncateAncients(target) with target above the frozen count leaves the
\* frozen count and the backlog as they were, without indexing the backlog
\* past its length; no TruncateAncients ever raises the frozen count.
C20_TruncateNeverGrows ==
    [][(ret'.op = "TruncateAncients") =>
          /\ frozen' <= frozen
          /\ ret'.arg > frozen =>
                (frozen' = frozen /\ cache' = cache /\ ret'.err # Panic)]_vars

====
